---- MODULE Spec2Model ----
(***************************************************************************)
(* Model of the GTD workspace commands (gtd-tooling/scripts).               *)
(*                                                                         *)
(* The persistent state is the workspace file tree: the active-project     *)
(* pointer file (.active), each project's README front matter and task     *)
(* list, the stash entries under projects/P000-STASH, the task record      *)
(* files and the day's memory log.  Each command handler is one action.    *)
(*                                                                         *)
(* Text is modelled as a sequence of characters (one-character strings);   *)
(* the parts of a name the code never inspects (a slug, the ".md"          *)
(* extension) are single opaque tokens of that sequence.                   *)
(*                                                                         *)
(* The workspace is an initialised one: projects/, projects/P000-STASH/    *)
(* and memory/ exist, and every project folder holds a README.md made      *)
(* from PROJECT_TEMPLATE.  No handler creates or deletes a project folder. *)
(***************************************************************************)
EXTENDS Integers, Sequences, FiniteSets, TLC

VARIABLES
    activeFile,   \* .active: [exists, text]
    readme,       \* project folder name -> README.md: [status, stashed, tasks]
    stashFiles,   \* files under projects/P000-STASH: set of [name, link, id, mtime]
    taskFiles,    \* task records: set of [dir, name, id, project, title, status]
    memoryFile,   \* memory/<today>.md: [exists, lines]
    last,         \* the last command run and what it returned
    pre,          \* history: the project state store before the last command
    allocated,    \* history: the numbers of the task ids handed out, in order
    strayNames,   \* names under projects/ that no handler wrote
    alertIn,      \* what the health alert engine reads: [now, tasks]
    alertOut,     \* the alerts of the last run of the engine
    clock,        \* the time of day of the machine, in ticks
    procs,        \* concurrent create_task invocations: [pc, project, task_id, seen]
    asideIn,      \* the text given to the aside classifier
    asideOut      \* the asides of the last run of the classifier

vars == <<activeFile, readme, stashFiles, taskFiles, memoryFile, last, pre,
          allocated, strayNames, alertIn, alertOut, clock, procs, asideIn, asideOut>>

\* what the workspace commands neither read as state of their own nor write
envVars == <<strayNames, alertIn, alertOut, clock, procs, asideIn, asideOut>>

(***************************************************************************)
(* Bounds of the model.                                                    *)
(***************************************************************************)
\* most task records in the store under Spec
MaxTasks == 1

\* most task records in the store under SpecAlloc
MaxAllocTasks == 3

\* tasks created in one run of the specification SpecScan
MaxScanTasks == 1

\* most task records the health alert engine reads under SpecAlerts
MaxAlertTasks == 1

\* clock ticks in a day: file times are finer than whole days
TicksPerDay == 2

\* most remarks in the text the classifier reads under SpecAsides
MaxSentences == 3

\* create_task invocations running at once under SpecRace
NumWriters == 2

\* most inbox task records the engine reads under SpecEngine
MaxInboxTasks == 12

\* single ticks the clock makes under SpecStash, besides the days of the
\* stash threshold
MaxExtraTicks == 2

\* task ids handed out in one run of the specification SpecReuse
MaxAllocations == 3

(***************************************************************************)
(* Characters, numbers and identifiers.                                    *)
(***************************************************************************)
DigitChars == <<"0", "1", "2", "3", "4", "5", "6", "7", "8", "9">>

IsDigit(c) == \E i \in 1..10 : DigitChars[i] = c

DigitVal(c) == (CHOOSE i \in 1..10 : DigitChars[i] = c) - 1

\* str(n) for n >= 0
RECURSIVE IntToStr(_)
IntToStr(n) ==
    IF n < 10 THEN <<DigitChars[n + 1]>>
    ELSE IntToStr(n \div 10) \o <<DigitChars[(n % 10) + 1]>>

\* int(s) for a digit string s
RECURSIVE StrToInt(_)
StrToInt(s) ==
    IF Len(s) = 0 THEN 0
    ELSE 10 * StrToInt(SubSeq(s, 1, Len(s) - 1)) + DigitVal(s[Len(s)])

\* f"{n:03d}": zero-padded to a minimum width of three
Format03d(n) ==
    LET s == IntToStr(n)
    IN  IF Len(s) >= 3 THEN s
        ELSE [i \in 1..(3 - Len(s)) |-> "0"] \o s

\* The longest run of digits of s that starts at position i
RECURSIVE DigitRun(_, _)
DigitRun(s, i) ==
    IF i > Len(s) \/ ~IsDigit(s[i]) THEN <<>>
    ELSE <<s[i]>> \o DigitRun(s, i + 1)

\* re.search(letter + r'(\d+)', name).group(1): the digits of the leftmost
\* place where `letter` is followed by a digit; <<>> when there is no match
ReSearchDigits(letter, name) ==
    LET hits == {i \in 1..(Len(name) - 1) : name[i] = letter /\ IsDigit(name[i + 1])}
    IN  IF hits = {} THEN <<>>
        ELSE LET i == CHOOSE h \in hits : \A g \in hits : h <= g
             IN  DigitRun(name, i + 1)

\* re.match(r'^P\d+$', s)
IsProjectIdSyntax(s) ==
    /\ Len(s) >= 2
    /\ s[1] = "P"
    /\ \A i \in 2..Len(s) : IsDigit(s[i])

IsPrefixOf(p, s) == Len(p) <= Len(s) /\ SubSeq(s, 1, Len(p)) = p

P000 == <<"P", "0", "0", "0">>
P001 == <<"P", "0", "0", "1">>
P002 == <<"P", "0", "0", "2">>
P009 == <<"P", "0", "0", "9">>

\* Python's None and the empty string are both falsy, and the handlers only
\* test truthiness: both are the empty text here.
None == <<>>

\* the mutant of Truthy: only a missing value would count as false, and the
\* text of the pointer file never is one
Truthy_always(s) == TRUE

\* `if project_id:` / `if not project_id:`
Truthy(s) == s # <<>>

(***************************************************************************)
(* The workspace tree.                                                     *)
(***************************************************************************)
StashDir == P000 \o <<"-", "STASH">>

ProjectDirs == {P001 \o <<"-", "alpha">>, P002 \o <<"-", "beta">>}

\* the entries of PROJECTS_DIR
Dirs == ProjectDirs \cup {StashDir}

\* list(PROJECTS_DIR.glob(f"{project_id}-*"))
GlobProject(project_id) == {d \in Dirs : IsPrefixOf(project_id \o <<"-">>, d)}

\* project_folder[0]
FirstOf(S) == CHOOSE d \in S : TRUE

\* the project folder that carries the identifier id, as the data model sees it
DirOf(id) == CHOOSE d \in ProjectDirs : IsPrefixOf(id \o <<"-">>, d)

ProjectIds == {P001, P002}

(***************************************************************************)
(* Project state store.                                                    *)
(***************************************************************************)
\* the mutant of get_active_project: the first project when none is recorded
get_active_project_default ==
    IF activeFile.exists /\ activeFile.text # <<>> THEN activeFile.text ELSE P001

\* get_active_project()
get_active_project ==
    IF activeFile.exists THEN activeFile.text ELSE None

\* the mutant of set_active_project: the identifier is appended to the file
set_active_project_append(project_id) ==
    [exists |-> TRUE, text |-> activeFile.text \o project_id]

\* set_active_project(project_id): ACTIVE_FILE.write_text(project_id)
set_active_project(project_id) ==
    [exists |-> TRUE, text |-> project_id]

\* the mutant of ClearActiveFile: the pointer file is left as it is
ClearActiveFile_keep == activeFile

\* ACTIVE_FILE.write_text("")
ClearActiveFile == [exists |-> TRUE, text |-> <<>>]

\* the mutant of SubStashed: the README is written back unchanged
SubStashed_noop(rd, dir, to) == rd

\* re.sub(r'stashed: false', 'stashed: true', content) when to = TRUE, and
\* the reverse substitution when to = FALSE, applied to the README of dir
SubStashed(rd, dir, to) ==
    IF dir \in DOMAIN rd
    THEN [rd EXCEPT ![dir].stashed = to]
    ELSE rd

\* the mutant of WriteStashFile: no stash entry is written
WriteStashFile_none(files, project_id, dir) == files

\* stash_file.write_text(...): one file per name, rewritten in place; the
\* file system stamps it with the time of the write
WriteStashFile(files, project_id, dir) ==
    {f \in files : f.name # project_id \o <<".md">>}
        \cup {[name |-> project_id \o <<".md">>, link |-> dir, id |-> project_id,
               mtime |-> clock]}

(***************************************************************************)
(* Memory log and the commit collaborator.                                 *)
(***************************************************************************)
MemoryHeader == <<"# Memory: today", "## Activities">>

\* update_memory(message)
update_memory(mem, message) ==
    LET created == IF ~mem.exists
                   THEN [exists |-> TRUE, lines |-> MemoryHeader]
                   ELSE mem
    IN  \* memory_file.write_text(f"- {message}\n") replaces the content
        [exists |-> TRUE, lines |-> <<message>>]

\* The status of a project as its README front matter gives it: `stashed:
\* true` marks a stashed project, otherwise the `status:` field says whether
\* it is an active or a future one
StatusIn(rd, dir) ==
    IF rd[dir].stashed THEN "stashed" ELSE rd[dir].status

ProjectStatus(dir) == StatusIn(readme, dir)

\* The error kind that a handler's message reports
ErrorKind(msg) ==
    CASE msg \in {"No active project to stash", "No active project"} -> "NoActiveProject"
      [] msg \in {"Project not found", "Invalid project ID"} -> "ProjectNotFound"
      [] msg = "CalledProcessError" -> "CalledProcessError"
      [] msg = "Usage" -> "Usage"
      [] OTHER -> "none"

\* The snapshot of the project state store kept in `pre`
Snapshot == [active |-> activeFile, readme |-> readme, stash |-> stashFiles]

Result(op, arg, ret, msg) ==
    [op |-> op, arg |-> arg, ret |-> ret, msg |-> msg, id |-> <<>>, warn |-> FALSE]

(***************************************************************************)
(* cmd_stash                                                               *)
(***************************************************************************)
cmd_stash ==
    LET project_id == get_active_project
        found == GlobProject(project_id)
    IN  /\ pre' = Snapshot
        /\ UNCHANGED <<allocated, envVars>>
        /\ IF ~Truthy(project_id)
           THEN /\ last' = Result("stash", <<>>, FALSE, "No active project to stash")
                /\ UNCHANGED <<activeFile, readme, stashFiles, taskFiles, memoryFile>>
           ELSE IF found = {}
           THEN /\ last' = Result("stash", <<>>, FALSE, "Project not found")
                /\ UNCHANGED <<activeFile, readme, stashFiles, taskFiles, memoryFile>>
           ELSE LET project_folder == FirstOf(found)
                IN  /\ readme' = SubStashed(readme, project_folder, TRUE)
                    /\ stashFiles' = WriteStashFile(stashFiles, project_id, project_folder)
                    /\ activeFile' = ClearActiveFile
                    /\ memoryFile' = update_memory(memoryFile, "Stashed project")
                    \* call_git_helper("stash"): its outcome is not looked at
                    /\ last' = Result("stash", <<>>, TRUE, "Stashed project")
                    /\ UNCHANGED taskFiles

(***************************************************************************)
(* cmd_switch                                                              *)
(***************************************************************************)
SwitchArgs == {<<>>, <<P000>>, <<P001>>, <<P002>>, <<P009>>, <<<<"x">>>>}

cmd_switch(args) ==
    /\ pre' = Snapshot
    /\ UNCHANGED <<allocated, envVars>>
    /\ IF args = <<>>
       THEN /\ last' = Result("switch", <<>>, FALSE, "Usage")
            /\ UNCHANGED <<activeFile, readme, stashFiles, taskFiles, memoryFile>>
       ELSE LET project_id == args[1]
                found == GlobProject(project_id)
            IN  IF ~IsProjectIdSyntax(project_id)
                THEN /\ last' = Result("switch", project_id, FALSE, "Invalid project ID")
                     /\ UNCHANGED <<activeFile, readme, stashFiles, taskFiles, memoryFile>>
                ELSE IF found = {}
                THEN /\ last' = Result("switch", project_id, FALSE, "Project not found")
                     /\ UNCHANGED <<activeFile, readme, stashFiles, taskFiles, memoryFile>>
                ELSE LET project_folder == FirstOf(found)
                     IN  /\ readme' = SubStashed(readme, project_folder, FALSE)
                         /\ activeFile' = set_active_project(project_id)
                         \* call_git_helper("commit", ...): its outcome is not looked at
                         /\ last' = Result("switch", project_id, TRUE, "Switched to project")
                         /\ UNCHANGED <<stashFiles, taskFiles, memoryFile>>

(***************************************************************************)
(* Identifier allocator.                                                   *)
(***************************************************************************)
\* every name folder.rglob(...) visits under PROJECTS_DIR
TreeNames ==
    Dirs \cup {f.name : f \in stashFiles} \cup {t.name : t \in taskFiles}
         \cup {<<"README.md">>, <<"tasks">>} \cup strayNames

\* the mutant of GlobMatches: only the letter followed by exactly three digits
GlobMatches_strict(prefix, name) ==
    /\ Len(name) >= 5
    /\ name[1] = (IF prefix = "K" THEN "K" ELSE "P")
    /\ IsDigit(name[2]) /\ IsDigit(name[3]) /\ IsDigit(name[4])
    /\ ~IsDigit(name[5])
    /\ (prefix = "K" => name[Len(name)] = ".md")

\* the glob patterns "K[0-9]*.md" and "P[0-9]*"
GlobMatches(prefix, name) ==
    IF prefix = "K"
    THEN /\ Len(name) >= 3
         /\ name[1] = "K"
         /\ IsDigit(name[2])
         /\ name[Len(name)] = ".md"
    ELSE /\ Len(name) >= 2
         /\ name[1] = "P"
         /\ IsDigit(name[2])

SetMax(S) == CHOOSE m \in S : \A x \in S : x <= m

\* the mutant of get_next_id: numbers by the count of records, not the maximum
get_next_id_count(prefix) ==
    LET letter == IF prefix = "K" THEN "K" ELSE "P"
        hits == {n \in TreeNames :
                    GlobMatches(prefix, n) /\ ReSearchDigits(letter, n) # <<>>}
    IN  <<prefix>> \o Format03d(Cardinality(hits) + 1)

SetMin(S) == CHOOSE m \in S : \A x \in S : m <= x

\* the mutant of get_next_id: one more than the smallest number found
get_next_id_min(prefix) ==
    LET letter == IF prefix = "K" THEN "K" ELSE "P"
        ids == {StrToInt(ReSearchDigits(letter, n)) :
                    n \in {m \in TreeNames :
                              GlobMatches(prefix, m) /\ ReSearchDigits(letter, m) # <<>>}}
        next_id == IF ids # {} THEN SetMin(ids) + 1 ELSE 1
    IN  <<prefix>> \o Format03d(next_id)

\* get_next_id(prefix)
get_next_id(prefix) ==
    LET letter == IF prefix = "K" THEN "K" ELSE "P"
        ids == {StrToInt(ReSearchDigits(letter, n)) :
                    n \in {m \in TreeNames :
                              GlobMatches(prefix, m) /\ ReSearchDigits(letter, m) # <<>>}}
        next_id == IF ids # {} THEN SetMax(ids) + 1 ELSE 1
    IN  <<prefix>> \o Format03d(next_id)

(***************************************************************************)
(* Record store: create_task                                               *)
(***************************************************************************)
Titles == {"Write spec"}

\* title.lower().replace(" ", "-")[:50]
Slug(title) ==
    CASE title = "Write spec" -> "write-spec"
      [] OTHER -> title

\* task_file.write_text(content): one file per path, rewritten in place
WriteTaskFile(files, dir, name, id, project, title, status) ==
    {t \in files : ~(t.dir = dir /\ t.name = name)}
        \cup {[dir |-> dir, name |-> name, id |-> id, project |-> project,
               title |-> title, status |-> status]}

\* the mutant of AddTaskLine: the README is also marked as not stashed
AddTaskLine_reactivating(rd, dir, task_id, title) ==
    IF dir \in DOMAIN rd
    THEN [rd EXCEPT ![dir].tasks = <<[id |-> task_id, title |-> title]>> \o @,
                    ![dir].stashed = FALSE]
    ELSE rd

\* re.sub(r'## Tasks\n', f'## Tasks\n{new_task}', readme_content): the new
\* reference line goes directly under the section heading
AddTaskLine(rd, dir, task_id, title) ==
    IF dir \in DOMAIN rd
    THEN [rd EXCEPT ![dir].tasks = <<[id |-> task_id, title |-> title]>> \o @]
    ELSE rd

\* the mutant of DefaultStatus: new tasks are filed in the inbox
DefaultStatus_inbox == "inbox"

\* create_task(title, project_id=None, status="next", **kwargs)
DefaultStatus == "next"

\* create_task(title, project_id, status): what it returns and the files it
\* leaves.  gitOk is the outcome of the two `git` runs made with check=True:
\* when one fails, CalledProcessError leaves create_task after the record
\* was written and before the README is touched.
create_task(title, project_id_arg, status, gitOk) ==
    LET project_id == IF ~Truthy(project_id_arg) THEN get_active_project
                      ELSE project_id_arg
        found == GlobProject(project_id)
        unchanged == [taskFiles |-> taskFiles, readme |-> readme, wrote |-> None]
    IN  IF ~Truthy(project_id)
        THEN unchanged @@ [ret |-> None, raised |-> FALSE, msg |-> "No active project"]
        ELSE IF found = {}
        THEN unchanged @@ [ret |-> None, raised |-> FALSE, msg |-> "Project not found"]
        ELSE LET project_folder == FirstOf(found)
                 task_id == get_next_id("K")
                 name == task_id \o <<"-", Slug(title), ".md">>
                 written == WriteTaskFile(taskFiles, project_folder, name, task_id,
                                          project_id, title, status)
             IN  IF ~gitOk
                 THEN [taskFiles |-> written, readme |-> readme, ret |-> None,
                       wrote |-> task_id,
                       raised |-> TRUE, msg |-> "CalledProcessError"]
                 ELSE [taskFiles |-> written, wrote |-> task_id,
                       readme |-> AddTaskLine(readme, project_folder, task_id, title),
                       ret |-> task_id, raised |-> FALSE, msg |-> "Created task"]

\* The part of a command that runs create_task and then, when a task id came
\* back, update_memory
RunCreateTask(op, title, project_id_arg, status, message) ==
    \E gitOk \in BOOLEAN, helperOk \in BOOLEAN :
        LET r == create_task(title, project_id_arg, status, gitOk)
        IN  /\ taskFiles' = r.taskFiles
            /\ readme' = r.readme
            /\ allocated' = IF r.wrote # None
                            THEN Append(allocated, StrToInt(Tail(r.wrote)))
                            ELSE allocated
            /\ memoryFile' = IF Truthy(r.ret) THEN update_memory(memoryFile, message)
                             ELSE memoryFile
            /\ last' = [op |-> op, arg |-> project_id_arg, ret |-> Truthy(r.ret),
                        msg |-> r.msg, id |-> r.ret,
                        warn |-> Truthy(r.ret) /\ ~helperOk]
            /\ UNCHANGED <<activeFile, stashFiles>>

\* cmd_add_task(args), title = " ".join(args); "" stands for no arguments
cmd_add_task(title) ==
    /\ pre' = Snapshot
    /\ UNCHANGED envVars
    /\ IF title = ""
       THEN /\ last' = Result("add", <<>>, FALSE, "Usage")
            /\ UNCHANGED <<activeFile, readme, stashFiles, taskFiles, memoryFile,
                           allocated>>
       ELSE RunCreateTask("add", title, None, DefaultStatus, "Created task")

DeferProjects == {None, P001, P002, P009}

\* cmd_defer(args): the argument matching ^P\d+$ is the project, the rest
\* the title
cmd_defer(title, project_id) ==
    /\ pre' = Snapshot
    /\ UNCHANGED envVars
    /\ RunCreateTask("defer", title, project_id, "later", "Deferred task")

\* a call of get_next_id on its own
Prefixes == {"K", "P"}

\* get_next_id takes any string as its prefix
AllocPrefixes == Prefixes \cup {"X"}

next_id(prefix) ==
    /\ pre' = Snapshot
    /\ UNCHANGED <<allocated, envVars>>
    /\ last' = [Result("next_id", <<prefix>>, TRUE, "") EXCEPT !.id = get_next_id(prefix)]
    /\ UNCHANGED <<activeFile, readme, stashFiles, taskFiles, memoryFile>>

\* the alert engine has nothing to read
NoAlertInput == [now |-> 0, tasks |-> <<>>]

(***************************************************************************)
(* Specification                                                           *)
(***************************************************************************)
\* the README front matter of the two projects before the first command
InitReadme ==
    (P001 \o <<"-", "alpha">> :> [status |-> "active", stashed |-> FALSE, tasks |-> <<>>])
    @@ (P002 \o <<"-", "beta">> :> [status |-> "future", stashed |-> FALSE, tasks |-> <<>>])

Init ==
    /\ clock = 0
    /\ activeFile = [exists |-> FALSE, text |-> <<>>]
    /\ readme = InitReadme
    /\ stashFiles = {}
    /\ taskFiles = {}
    /\ memoryFile = [exists |-> FALSE, lines |-> <<>>]
    /\ last = Result("init", <<>>, TRUE, "")
    /\ pre = [active |-> activeFile, readme |-> readme, stash |-> stashFiles]
    /\ allocated = <<>>
    /\ strayNames = {}
    /\ alertIn = NoAlertInput
    /\ alertOut = <<>>
    /\ procs = <<>>
    /\ asideIn = <<>>
    /\ asideOut = <<>>

CanCreate == Cardinality(taskFiles) < MaxTasks

Next ==
    \/ cmd_stash
    \/ \E args \in SwitchArgs : cmd_switch(args)
    \/ CanCreate /\ \E title \in Titles \cup {""} : cmd_add_task(title)
    \/ CanCreate /\ \E title \in Titles, project_id \in DeferProjects :
                        cmd_defer(title, project_id)

Spec == Init /\ [][Next]_vars

(***************************************************************************)
(* Specification of the identifier allocator: a store that already holds   *)
(* task records, on which tasks are created and the next identifier is     *)
(* asked for.                                                              *)
(***************************************************************************)
\* task records that may exist before the first command
SeedNumbers == {9, 99, 999}

SeedTask(n) ==
    LET id == <<"K">> \o Format03d(n)
        dir == P001 \o <<"-", "alpha">>
    IN  [dir |-> dir, name |-> id \o <<"-", "seed", ".md">>, id |-> id,
         project |-> P001, title |-> "seed", status |-> "next"]

InitAlloc ==
    /\ clock = 0
    /\ activeFile = [exists |-> FALSE, text |-> <<>>]
    /\ readme = InitReadme
    /\ stashFiles \in {{}, WriteStashFile({}, P002, P002 \o <<"-", "beta">>)}
    /\ taskFiles \in SUBSET {SeedTask(n) : n \in SeedNumbers}
    /\ memoryFile = [exists |-> FALSE, lines |-> <<>>]
    /\ last = Result("init", <<>>, TRUE, "")
    /\ pre = [active |-> activeFile, readme |-> readme, stash |-> stashFiles]
    /\ allocated = <<>>
    /\ strayNames = {}
    /\ alertIn = NoAlertInput
    /\ alertOut = <<>>
    /\ procs = <<>>
    /\ asideIn = <<>>
    /\ asideOut = <<>>

CanCreateAlloc == Cardinality(taskFiles) < MaxAllocTasks

NextAlloc ==
    \/ \E prefix \in AllocPrefixes : next_id(prefix)
    \/ CanCreateAlloc /\ \E title \in Titles, project_id \in DeferProjects :
                             cmd_defer(title, project_id)

SpecAlloc == InitAlloc /\ [][NextAlloc]_vars

(***************************************************************************)
(* Specification of the scan over a tree that also holds names no command  *)
(* wrote: K12abc.md, K0050-old.md, Kabc.md, K5.txt and a folder P42x.      *)
(***************************************************************************)
StrayK12abc == <<"K", "1", "2", "a", "b", "c", ".md">>
StrayK0050  == <<"K", "0", "0", "5", "0", "-", "old", ".md">>
StrayKabc   == <<"K", "a", "b", "c", ".md">>
StrayK5txt  == <<"K", "5", ".txt">>
StrayP42x   == <<"P", "4", "2", "x">>

StrayChoices == {StrayK12abc, StrayK0050, StrayKabc, StrayK5txt, StrayP42x}

InitScan ==
    /\ clock = 0
    /\ activeFile = [exists |-> FALSE, text |-> <<>>]
    /\ readme = InitReadme
    /\ stashFiles = {}
    /\ taskFiles \in SUBSET {SeedTask(9)}
    /\ memoryFile = [exists |-> FALSE, lines |-> <<>>]
    /\ last = Result("init", <<>>, TRUE, "")
    /\ pre = [active |-> activeFile, readme |-> readme, stash |-> stashFiles]
    /\ allocated = <<>>
    /\ strayNames \in SUBSET StrayChoices
    /\ alertIn = NoAlertInput
    /\ alertOut = <<>>
    /\ procs = <<>>
    /\ asideIn = <<>>
    /\ asideOut = <<>>

CanCreateScan == Len(allocated) < MaxScanTasks

NextScan ==
    \/ \E prefix \in AllocPrefixes : next_id(prefix)
    \/ CanCreateScan /\ \E title \in Titles, project_id \in DeferProjects :
                            cmd_defer(title, project_id)

SpecScan == InitScan /\ [][NextScan]_vars

(***************************************************************************)
(* Specification of the store when records are deleted between commands:   *)
(* tasks are created and task records are removed from the tree.           *)
(***************************************************************************)
CanCreateReuse == Len(allocated) < MaxAllocations

\* a task record is deleted from the tree outside the commands (no command
\* deletes one); rglob sees the files that are left
remove_task(t) ==
    /\ pre' = Snapshot
    /\ taskFiles' = taskFiles \ {t}
    /\ last' = Result("remove", t.id, TRUE, "")
    /\ UNCHANGED <<activeFile, readme, stashFiles, memoryFile, allocated, envVars>>

NextReuse ==
    \/ CanCreateReuse /\ \E title \in Titles, project_id \in DeferProjects :
                             cmd_defer(title, project_id)
    \/ \E t \in taskFiles : remove_task(t)

SpecReuse == Init /\ [][NextReuse]_vars

(***************************************************************************)
(* Health alert engine: check_aging_tasks (gtd_health_alerts.py).          *)
(* A task record is read as its front-matter status, the status its free   *)
(* text (title, notes) may spell out as "status: ...", whether it has the  *)
(* id: and title: lines, and its modification time in ticks.               *)
(***************************************************************************)
\* timedelta(days=3)
WaitingDays == 3

\* timedelta(days=7)
NextDays == 7

\* "status: <s>" in content
ContentHas(t, s) == t.status = s \/ t.mention = s

\* (datetime.now() - mtime).days
DaysSince(now, mtime) == (now - mtime) \div TicksPerDay

\* the mutant of check_aging_tasks: the whole-day age is compared with the
\* threshold
check_aging_tasks_wholedays(in) ==
    LET TaskAlerts(t) ==
            (IF ContentHas(t, "waiting") /\ DaysSince(in.now, t.mtime) > WaitingDays
                  /\ t.hasFields
             THEN <<[kind |-> "waiting-stale", id |-> t.id,
                     days |-> DaysSince(in.now, t.mtime)]>>
             ELSE <<>>)
            \o
            (IF ContentHas(t, "next") /\ DaysSince(in.now, t.mtime) > NextDays
                  /\ t.hasFields
             THEN <<[kind |-> "next-stale", id |-> t.id,
                     days |-> DaysSince(in.now, t.mtime)]>>
             ELSE <<>>)
        Walk[i \in 0..Len(in.tasks)] ==
            IF i = 0 THEN <<>> ELSE Walk[i - 1] \o TaskAlerts(in.tasks[i])
    IN  Walk[Len(in.tasks)]

\* check_aging_tasks(): the records are visited in the order of rglob, and
\* each goes through the two tests one after the other
check_aging_tasks(in) ==
    LET three_days_ago == in.now - WaitingDays * TicksPerDay
        seven_days_ago == in.now - NextDays * TicksPerDay
        TaskAlerts(t) ==
            (IF ContentHas(t, "waiting") /\ t.mtime < three_days_ago /\ t.hasFields
             THEN <<[kind |-> "waiting-stale", id |-> t.id,
                     days |-> DaysSince(in.now, t.mtime)]>>
             ELSE <<>>)
            \o
            (IF ContentHas(t, "next") /\ t.mtime < seven_days_ago /\ t.hasFields
             THEN <<[kind |-> "next-stale", id |-> t.id,
                     days |-> DaysSince(in.now, t.mtime)]>>
             ELSE <<>>)
        Walk[i \in 0..Len(in.tasks)] ==
            IF i = 0 THEN <<>> ELSE Walk[i - 1] \o TaskAlerts(in.tasks[i])
    IN  Walk[Len(in.tasks)]

\* timedelta(days=7) of check_stashed_projects
StashDays == 7

\* check_stashed_projects(): `stash` is the files of P000-STASH in the order
\* glob("P*.md") yields them; a file written by cmd_stash always holds the
\* [[link|id]] the alert is made from
check_stashed_projects(stash, time) ==
    LET seven_days_ago == time - StashDays * TicksPerDay
        FileAlerts(f) ==
            IF f.mtime < seven_days_ago
            THEN <<[kind |-> "stash-stale", id |-> f.id, link |-> f.link,
                    days |-> DaysSince(time, f.mtime)]>>
            ELSE <<>>
        Walk[i \in 0..Len(stash)] ==
            IF i = 0 THEN <<>> ELSE Walk[i - 1] \o FileAlerts(stash[i])
    IN  Walk[Len(stash)]

\* inbox_count > 10
InboxLimit == 10

\* check_inbox_overflow(): every K*.md file whose text holds "status: inbox"
\* is counted
check_inbox_overflow(in) ==
    LET Count[i \in 0..Len(in.tasks)] ==
            IF i = 0 THEN 0
            ELSE Count[i - 1] + (IF ContentHas(in.tasks[i], "inbox") THEN 1 ELSE 0)
        inbox_count == Count[Len(in.tasks)]
    IN  IF inbox_count > InboxLimit
        THEN <<[kind |-> "inbox-overflow", id |-> <<>>, count |-> inbox_count]>>
        ELSE <<>>

\* the mutant of generate_alerts: the inbox check comes first
generate_alerts_inbox_first(in, stash) ==
    check_inbox_overflow(in)
        \o check_aging_tasks(in) \o check_stashed_projects(stash, in.now)

\* generate_alerts()
generate_alerts(in, stash) ==
    check_aging_tasks(in)
        \o check_stashed_projects(stash, in.now) \o check_inbox_overflow(in)

\* the orders in which glob may yield the files of a folder
GlobOrders(files) ==
    {o \in [1..Cardinality(files) -> files] :
        \A i, j \in 1..Cardinality(files) : i # j => o[i] # o[j]}

\* main() of gtd_health_alerts.py: one run over the task records of alertIn
\* and the stash files, at the time of the clock
health_check ==
    /\ pre' = Snapshot
    /\ \E stash \in GlobOrders(stashFiles) :
          alertOut' = generate_alerts([now |-> clock, tasks |-> alertIn.tasks], stash)
    /\ last' = Result("health", <<>>, alertOut' = <<>>, "")
    /\ UNCHANGED <<activeFile, readme, stashFiles, taskFiles, memoryFile,
                   allocated, strayNames, alertIn, clock, procs, asideIn, asideOut>>

\* one run of the engine over the records of alertIn
check_aging_tasks_run ==
    /\ pre' = Snapshot
    /\ alertOut' = check_aging_tasks(alertIn)
    /\ last' = Result("health", <<>>, alertOut' = <<>>, "")
    /\ UNCHANGED <<activeFile, readme, stashFiles, taskFiles, memoryFile,
                   allocated, strayNames, alertIn, clock, procs, asideIn, asideOut>>

\* the time of the run, in ticks
NowTick == 10 * TicksPerDay

\* ages on both sides of each threshold: exactly N days, N days and one tick,
\* N + 1 days
AgeChoices ==
    {d * TicksPerDay : d \in {WaitingDays, WaitingDays + 1, NextDays, NextDays + 1}}
        \cup {d * TicksPerDay + 1 : d \in {WaitingDays, NextDays}}

AlertStatuses == {"waiting", "next", "later"}

\* "" when the free text of the record spells out no status
Mentions == {"", "next"}

TaskChoices ==
    [status : AlertStatuses, mention : Mentions, hasFields : BOOLEAN,
     mtime : {NowTick - a : a \in AgeChoices}]

\* the records in the order rglob yields them, each with its own id
AlertTaskSeqs ==
    UNION {{[i \in 1..n |-> [id |-> <<"K">> \o Format03d(i)] @@ f[i]] :
               f \in [1..n -> TaskChoices]} : n \in 0..MaxAlertTasks}

InitAlerts ==
    /\ clock = NowTick
    /\ activeFile = [exists |-> FALSE, text |-> <<>>]
    /\ readme = InitReadme
    /\ stashFiles = {}
    /\ taskFiles = {}
    /\ memoryFile = [exists |-> FALSE, lines |-> <<>>]
    /\ last = Result("init", <<>>, TRUE, "")
    /\ pre = [active |-> activeFile, readme |-> readme, stash |-> stashFiles]
    /\ allocated = <<>>
    /\ strayNames = {}
    /\ alertIn \in {[now |-> NowTick, tasks |-> ts] : ts \in AlertTaskSeqs}
    /\ alertOut = <<>>
    /\ procs = <<>>
    /\ asideIn = <<>>
    /\ asideOut = <<>>

NextAlerts == check_aging_tasks_run

SpecAlerts == InitAlerts /\ [][NextAlerts]_vars

(***************************************************************************)
(* Specification of create_task run by several processes at once.  Each    *)
(* invocation is two steps: up to task_id = get_next_id("K"), and from     *)
(* task_file.write_text(content) to the end.                               *)
(***************************************************************************)
Writers == 1..NumWriters

RaceProjects == {P001, P002}

\* the mutant of RaceTaskId: the id is allocated again at the time of the write
RaceTaskId_fresh(p) == get_next_id("K")

\* the local task_id of an invocation
RaceTaskId(p) == procs[p].task_id

\* create_task up to the allocation: the project is resolved and the tree is
\* scanned for the next id
race_scan(p, project_id) ==
    /\ procs[p].pc = "start"
    /\ GlobProject(project_id) # {}
    /\ procs' = [procs EXCEPT ![p] = [pc |-> "scanned", project |-> project_id,
                                      task_id |-> get_next_id("K"),
                                      seen |-> {t.id : t \in taskFiles}]]
    /\ pre' = Snapshot
    /\ last' = Result("race_scan", project_id, TRUE, "")
    /\ UNCHANGED <<activeFile, readme, stashFiles, taskFiles, memoryFile, allocated,
                   strayNames, alertIn, alertOut, clock, asideIn, asideOut>>

\* create_task from the write of the record to its end
race_write(p, title) ==
    /\ procs[p].pc = "scanned"
    /\ \E gitOk \in BOOLEAN :
          LET project_id == procs[p].project
              project_folder == FirstOf(GlobProject(project_id))
              task_id == RaceTaskId(p)
              name == task_id \o <<"-", Slug(title), ".md">>
          IN  /\ taskFiles' = WriteTaskFile(taskFiles, project_folder, name, task_id,
                                            project_id, title, DefaultStatus)
              /\ readme' = IF gitOk
                           THEN AddTaskLine(readme, project_folder, task_id, title)
                           ELSE readme
              /\ allocated' = Append(allocated, StrToInt(Tail(task_id)))
              /\ last' = [Result("race_write", project_id, gitOk,
                                 IF gitOk THEN "Created task" ELSE "CalledProcessError")
                             EXCEPT !.id = IF gitOk THEN task_id ELSE None]
    /\ procs' = [procs EXCEPT ![p].pc = "done"]
    /\ pre' = Snapshot
    /\ UNCHANGED <<activeFile, stashFiles, memoryFile,
                   strayNames, alertIn, alertOut, clock, asideIn, asideOut>>

InitRace ==
    /\ clock = 0
    /\ activeFile = [exists |-> FALSE, text |-> <<>>]
    /\ readme = InitReadme
    /\ stashFiles = {}
    /\ taskFiles \in SUBSET {SeedTask(9)}
    /\ memoryFile = [exists |-> FALSE, lines |-> <<>>]
    /\ last = Result("init", <<>>, TRUE, "")
    /\ pre = [active |-> activeFile, readme |-> readme, stash |-> stashFiles]
    /\ allocated = <<>>
    /\ strayNames = {}
    /\ alertIn = NoAlertInput
    /\ alertOut = <<>>
    /\ procs = [p \in Writers |-> [pc |-> "start", project |-> None,
                                    task_id |-> None, seen |-> {}]]
    /\ asideIn = <<>>
    /\ asideOut = <<>>

NextRace ==
    \/ \E p \in Writers, project_id \in RaceProjects : race_scan(p, project_id)
    \/ \E p \in Writers, title \in Titles : race_write(p, title)

SpecRace == InitRace /\ [][NextRace]_vars

(***************************************************************************)
(* Specification of the whole engine as a function of the record set: the  *)
(* task records are some inbox tasks, possibly a task of another status    *)
(* whose text spells out "status: inbox", and possibly one aged task; the  *)
(* stash folder holds no entry, a fresh one or an old one.                 *)
(***************************************************************************)
\* n copies of the record r
Repeat(r, n) == [i \in 1..n |-> r]

\* a task record modified at the time of the run
FreshTask(status, mention) ==
    [status |-> status, mention |-> mention, hasFields |-> TRUE, mtime |-> NowTick]

\* a task record that has aged past both thresholds
AgedTask(status) ==
    [status |-> status, mention |-> "", hasFields |-> TRUE,
     mtime |-> NowTick - (NextDays + 1) * TicksPerDay]

\* the records in the order rglob yields them, each with its own id
Numbered(ts) == [i \in 1..Len(ts) |-> [id |-> <<"K">> \o Format03d(i)] @@ ts[i]]

EngineTaskSeqs ==
    {Numbered(aged \o Repeat(FreshTask("inbox", ""), n)
                   \o Repeat(FreshTask("next", "inbox"), m)) :
        n \in 0..MaxInboxTasks, m \in 0..1,
        aged \in {<<>>, <<AgedTask("waiting")>>, <<AgedTask("next")>>}}

\* the age of the stash entry of P001, in ticks
StashAgeChoices == {0, (StashDays + 1) * TicksPerDay}

InitEngine ==
    /\ clock = NowTick
    /\ activeFile = [exists |-> TRUE, text |-> <<>>]
    /\ \/ stashFiles = {} /\ readme = InitReadme
       \/ \E age \in StashAgeChoices :
             /\ stashFiles = {[name |-> P001 \o <<".md">>, link |-> DirOf(P001),
                               id |-> P001, mtime |-> NowTick - age]}
             /\ readme = SubStashed(InitReadme, DirOf(P001), TRUE)
    /\ taskFiles = {}
    /\ memoryFile = [exists |-> FALSE, lines |-> <<>>]
    /\ last = Result("init", <<>>, TRUE, "")
    /\ pre = [active |-> activeFile, readme |-> readme, stash |-> stashFiles]
    /\ allocated = <<>>
    /\ strayNames = {}
    /\ alertIn \in {[now |-> NowTick, tasks |-> ts] : ts \in EngineTaskSeqs}
    /\ alertOut = <<>>
    /\ procs = <<>>
    /\ asideIn = <<>>
    /\ asideOut = <<>>

NextEngine == health_check

SpecEngine == InitEngine /\ [][NextEngine]_vars

(***************************************************************************)
(* Specification of the project state store over time: projects are        *)
(* switched to and stashed, days pass, and the read operations run.        *)
(***************************************************************************)
\* time passes: by one tick, or by the days of the stash threshold
TickSteps == {1, StashDays * TicksPerDay}

tick(d) ==
    /\ clock' = clock + d
    /\ pre' = Snapshot
    /\ last' = Result("tick", <<>>, TRUE, "")
    /\ UNCHANGED <<activeFile, readme, stashFiles, taskFiles, memoryFile, allocated,
                   strayNames, alertIn, alertOut, procs, asideIn, asideOut>>

\* the mutant of get_active: the pointer file is opened for writing
get_active_truncating ==
    /\ pre' = Snapshot
    /\ last' = [Result("get_active", <<>>, TRUE, "") EXCEPT !.id = get_active_project]
    /\ activeFile' = ClearActiveFile
    /\ UNCHANGED <<readme, stashFiles, taskFiles, memoryFile, allocated, envVars>>

\* get_active_project() called on its own
get_active ==
    /\ pre' = Snapshot
    /\ last' = [Result("get_active", <<>>, TRUE, "") EXCEPT !.id = get_active_project]
    /\ UNCHANGED <<activeFile, readme, stashFiles, taskFiles, memoryFile, allocated,
                   envVars>>

StashSwitchArgs == {<<P001>>, <<P002>>}

\* the clock passes the threshold once, and makes at most MaxExtraTicks single
\* ticks before it and after it
CanTick(d) ==
    IF d = 1
    THEN clock % (StashDays * TicksPerDay) < MaxExtraTicks
    ELSE clock < StashDays * TicksPerDay

NextStash ==
    \/ cmd_stash
    \/ \E args \in StashSwitchArgs : cmd_switch(args)
    \/ \E d \in TickSteps : CanTick(d) /\ tick(d)
    \/ health_check
    \/ get_active
    \/ next_id("K")
    \/ taskFiles = {} /\ \E title \in Titles : cmd_add_task(title)

SpecStash == Init /\ [][NextStash]_vars

(***************************************************************************)
(* Aside classifier (heuristic_asides.py).  A pattern r"\b...\b" searched   *)
(* with re.IGNORECASE is its literal, in lower case, found between two     *)
(* word boundaries of the case-folded sentence.                            *)
(***************************************************************************)
UpperLetters == <<"A", "B", "C", "D", "E", "F", "G", "H", "I", "J", "K", "L", "M",
                  "N", "O", "P", "Q", "R", "S", "T", "U", "V", "W", "X", "Y", "Z">>

LowerLetters == <<"a", "b", "c", "d", "e", "f", "g", "h", "i", "j", "k", "l", "m",
                  "n", "o", "p", "q", "r", "s", "t", "u", "v", "w", "x", "y", "z">>

\* the lower-case letter of each upper-case letter
FoldMap ==
    [c \in {UpperLetters[i] : i \in 1..26} |->
        LowerLetters[CHOOSE i \in 1..26 : UpperLetters[i] = c]]

\* a character under re.IGNORECASE
Fold(c) == IF c \in DOMAIN FoldMap THEN FoldMap[c] ELSE c

WordChars ==
    {UpperLetters[i] : i \in 1..26} \cup {LowerLetters[i] : i \in 1..26}
        \cup {DigitChars[i] : i \in 1..10} \cup {"_"}

\* \w
IsWordChar(c) == c \in WordChars

\* \b between s[i] and s[i+1]; i = 0 is the start and i = Len(s) the end
AtBoundary(s, i) ==
    (i >= 1 /\ i <= Len(s) /\ IsWordChar(s[i]))
        # (i + 1 >= 1 /\ i + 1 <= Len(s) /\ IsWordChar(s[i + 1]))

\* the literal lit, case-sensitively, at s[i+1..i+Len(lit)]
LitAtExact(s, lit, i) ==
    /\ i + Len(lit) <= Len(s)
    /\ \A k \in 1..Len(lit) : s[i + k] = lit[k]

\* the lower-case literal lit, under re.IGNORECASE, at s[i+1..i+Len(lit)]
LitAt(s, lit, i) ==
    /\ i + Len(lit) <= Len(s)
    /\ \A k \in 1..Len(lit) : Fold(s[i + k]) = lit[k]

\* re.search(r"\b" + lit + r"\b", s, re.IGNORECASE)
SearchPhrase(lit, s) ==
    \E i \in 0..Len(s) :
        /\ AtBoundary(s, i)
        /\ LitAt(s, lit, i)
        /\ AtBoundary(s, i + Len(lit))

\* "." of a pattern over s[a..b]: any characters but a newline
NoNewline(s, a, b) == \A k \in a..b : s[k] # "\n"

TRIGGER_PHRASES ==
    << <<"a", "l", "s", "o">>,
       <<"o", "h">>,
       <<"b", "y", " ", "t", "h", "e", " ", "w", "a", "y">>,
       <<"b", "y", " ", "t", "h", "e", " ", "w", "a", "y">>,
       <<"r", "e", "m", "i", "n", "d", "s", " ", "m", "e", " ", "o", "f">>,
       <<"s", "p", "e", "a", "k", "i", "n", "g", " ", "o", "f">>,
       <<"s", "h", "o", "u", "l", "d", " ", "l", "o", "o", "k", " ", "i",
       "n", "t", "o">>,
       <<"c", "o", "u", "l", "d", " ", "e", "x", "p", "l", "o", "r", "e">>,
       <<"m", "i", "g", "h", "t", " ", "w", "a", "n", "t", " ", "t", "o">>,
       <<"w", "e", " ", "s", "h", "o", "u", "l", "d">>,
       <<"o", "n", " ", "a", " ", "s", "i", "d", "e", " ", "n", "o", "t",
       "e">>,
       <<"t", "a", "n", "g", "e", "n", "t", "i", "a", "l", "l", "y">>,
       <<"o", "n", " ", "a", " ", "r", "e", "l", "a", "t", "e", "d", " ",
       "n", "o", "t", "e">>,
       <<"w", "h", "i", "l", "e", " ", "w", "e", "'", "r", "e", " ", "a",
       "t", " ", "i", "t">>,
       <<"w", "h", "i", "l", "e", " ", "i", "'", "m", " ", "t", "h", "i",
       "n", "k", "i", "n", "g">>,
       <<"i", "d", "e", "a", ":">>,
       <<"t", "h", "o", "u", "g", "h", "t", ":">> >>

\* the alternatives (but|however|although)
AlsoClauses ==
    { <<"b", "u", "t">>,
      <<"h", "o", "w", "e", "v", "e", "r">>,
      <<"a", "l", "t", "h", "o", "u", "g", "h">> }

\* re.search(r"\balso\b.*?(but|however|although)", s, re.IGNORECASE)
IgnoreAlso(s) ==
    \E i \in 0..Len(s) :
        /\ AtBoundary(s, i)
        /\ LitAt(s, <<"a", "l", "s", "o">>, i)
        /\ AtBoundary(s, i + 4)
        /\ \E j \in (i + 4)..Len(s) :
              /\ NoNewline(s, i + 5, j)
              /\ \E w \in AlsoClauses : LitAt(s, w, j)

\* re.search(r"\bspeaking of.*?we were\b", s, re.IGNORECASE)
IgnoreSpeaking(s) ==
    \E i \in 0..Len(s) :
        /\ AtBoundary(s, i)
        /\ LitAt(s, <<"s", "p", "e", "a", "k", "i", "n", "g", " ", "o", "f">>, i)
        /\ \E j \in (i + 11)..Len(s) :
              /\ NoNewline(s, i + 12, j)
              /\ LitAt(s, <<"w", "e", " ", "w", "e", "r", "e">>, j)
              /\ AtBoundary(s, j + 7)

\* the mutant of IGNORE_PATTERNS: the patterns searched without re.IGNORECASE
IGNORE_PATTERNS_exact(s) ==
    << \E i \in 0..Len(s) :
          /\ AtBoundary(s, i)
          /\ LitAtExact(s, <<"a", "l", "s", "o">>, i)
          /\ AtBoundary(s, i + 4)
          /\ \E j \in (i + 4)..Len(s) :
                /\ NoNewline(s, i + 5, j)
                /\ \E w \in AlsoClauses : LitAtExact(s, w, j),
       \E i \in 0..Len(s) :
          /\ AtBoundary(s, i)
          /\ LitAtExact(s, <<"s", "p", "e", "a", "k", "i", "n", "g", " ", "o", "f">>, i)
          /\ \E j \in (i + 11)..Len(s) :
                /\ NoNewline(s, i + 12, j)
                /\ LitAtExact(s, <<"w", "e", " ", "w", "e", "r", "e">>, j)
                /\ AtBoundary(s, j + 7) >>

\* the ignore patterns, each as its search in s
IGNORE_PATTERNS(s) == <<IgnoreAlso(s), IgnoreSpeaking(s)>>

SentenceEnds == {".", "!", "?"}

Whitespace == {" ", "\t", "\n"}

\* re.split(r'[.!?]+', text) from position i on, cur being the piece so far
RECURSIVE SplitFrom(_, _, _)
SplitFrom(text, i, cur) ==
    IF i > Len(text) THEN <<cur>>
    ELSE IF text[i] \in SentenceEnds
         THEN IF i > 1 /\ text[i - 1] \in SentenceEnds
              THEN SplitFrom(text, i + 1, cur)
              ELSE <<cur>> \o SplitFrom(text, i + 1, <<>>)
         ELSE SplitFrom(text, i + 1, Append(cur, text[i]))

re_split(text) == SplitFrom(text, 1, <<>>)

\* str.strip()
strip(s) ==
    LET inked == {i \in 1..Len(s) : s[i] \notin Whitespace}
    IN  IF inked = {} THEN <<>> ELSE SubSeq(s, SetMin(inked), SetMax(inked))

\* re.search(r'\bP\d+\b', sentence): no re.IGNORECASE
SearchProjectId(sentence) ==
    \E i \in 0..Len(sentence) :
        /\ AtBoundary(sentence, i)
        /\ LitAtExact(sentence, <<"P">>, i)
        /\ \E k \in 1..(Len(sentence) - i - 1) :
              /\ \A d \in 1..k : IsDigit(sentence[i + 1 + d])
              /\ AtBoundary(sentence, i + 1 + k)

immediate ==
    << <<"n", "e", "e", "d", " ", "t", "o">>,
       <<"m", "u", "s", "t">>,
       <<"h", "a", "v", "e", " ", "t", "o">>,
       <<"s", "t", "a", "r", "t">>,
       <<"b", "e", "g", "i", "n">> >>

DeferProject == "defer (project)"

LaterStandalone == "later (standalone)"

\* the mutant of infer_aside_type: the project id searched with re.IGNORECASE
infer_aside_type_ignorecase(sentence) ==
    IF \E i \in 0..Len(sentence) :
          /\ AtBoundary(sentence, i)
          /\ LitAt(sentence, <<"p">>, i)
          /\ \E k \in 1..(Len(sentence) - i - 1) :
                /\ \A d \in 1..k : IsDigit(sentence[i + 1 + d])
                /\ AtBoundary(sentence, i + 1 + k)
    THEN DeferProject
    ELSE IF \E k \in 1..Len(immediate) : SearchPhrase(immediate[k], sentence)
         THEN DeferProject
         ELSE LaterStandalone

infer_aside_type(sentence) ==
    IF SearchProjectId(sentence)
    THEN DeferProject
    ELSE IF \E k \in 1..Len(immediate) : SearchPhrase(immediate[k], sentence)
         THEN DeferProject
         ELSE LaterStandalone

\* the mutant of TriggerLoop: the loop without its break
RECURSIVE TriggerLoop_nobreak(_, _, _)
TriggerLoop_nobreak(sentence, k, asides) ==
    IF k > Len(TRIGGER_PHRASES) THEN asides
    ELSE IF SearchPhrase(TRIGGER_PHRASES[k], sentence)
         THEN TriggerLoop_nobreak(sentence, k + 1,
                  Append(asides, <<sentence, infer_aside_type(sentence)>>))
         ELSE TriggerLoop_nobreak(sentence, k + 1, asides)

\* for trigger in TRIGGER_PHRASES, from the k-th trigger on
RECURSIVE TriggerLoop(_, _, _)
TriggerLoop(sentence, k, asides) ==
    IF k > Len(TRIGGER_PHRASES) THEN asides
    ELSE IF SearchPhrase(TRIGGER_PHRASES[k], sentence)
         THEN Append(asides, <<sentence, infer_aside_type(sentence)>>)
         ELSE TriggerLoop(sentence, k + 1, asides)

\* for sentence in sentences, from the k-th piece on
RECURSIVE SentenceLoop(_, _, _)
SentenceLoop(sentences, k, asides) ==
    IF k > Len(sentences) THEN asides
    ELSE LET sentence == strip(sentences[k])
         IN  IF sentence = <<>>
             THEN SentenceLoop(sentences, k + 1, asides)
             ELSE IF \E n \in 1..2 : IGNORE_PATTERNS(sentence)[n]
                  THEN SentenceLoop(sentences, k + 1, asides)
                  ELSE SentenceLoop(sentences, k + 1, TriggerLoop(sentence, 1, asides))

detect_asides(text) == SentenceLoop(re_split(text), 1, <<>>)

\* main: the text is classified
detect_asides_run ==
    /\ last.op = "init"
    /\ asideOut' = detect_asides(asideIn)
    /\ last' = Result("detect_asides", <<>>, TRUE, "")
    /\ UNCHANGED <<activeFile, readme, stashFiles, taskFiles, memoryFile, pre, allocated,
                   strayNames, alertIn, alertOut, clock, procs, asideIn>>

(***************************************************************************)
(* Specification of the classifier: the text is up to MaxSentences of the  *)
(* remarks below, each with its closing punctuation, one after the other.  *)
(***************************************************************************)
Remarks ==
    { \* "Also, but we already covered that."
      <<"A", "l", "s", "o", ",", " ", "b", "u", "t", " ", "w", "e", " ",
      "a", "l", "r", "e", "a", "d", "y", " ", "c", "o", "v", "e", "r", "e",
      "d", " ", "t", "h", "a", "t", ".">>,
      \* " Oh, P12 is late!"
      <<" ", "O", "h", ",", " ", "P", "1", "2", " ", "i", "s", " ", "l",
      "a", "t", "e", "!">>,
      \* " We should try tea?!"
      <<" ", "W", "e", " ", "s", "h", "o", "u", "l", "d", " ", "t", "r",
      "y", " ", "t", "e", "a", "?", "!">>,
      \* " The button is red."
      <<" ", "T", "h", "e", " ", "b", "u", "t", "t", "o", "n", " ", "i",
      "s", " ", "r", "e", "d", ".">>,
      \* " By the way p12 is restarting."
      <<" ", "B", "y", " ", "t", "h", "e", " ", "w", "a", "y", " ", "p",
      "1", "2", " ", "i", "s", " ", "r", "e", "s", "t", "a", "r", "t", "i",
      "n", "g", ".">>,
      \* " Also oh we must begin."
      <<" ", "A", "l", "s", "o", " ", "o", "h", " ", "w", "e", " ", "m",
      "u", "s", "t", " ", "b", "e", "g", "i", "n", ".">>,
      \* " Speaking of what we were doing."
      <<" ", "S", "p", "e", "a", "k", "i", "n", "g", " ", "o", "f", " ",
      "w", "h", "a", "t", " ", "w", "e", " ", "w", "e", "r", "e", " ", "d",
      "o", "i", "n", "g", ".">>,
      \* " Also press the button."
      <<" ", "A", "l", "s", "o", " ", "p", "r", "e", "s", "s", " ", "t",
      "h", "e", " ", "b", "u", "t", "t", "o", "n", ".">> }

RECURSIVE Concat(_)
Concat(parts) == IF parts = <<>> THEN <<>> ELSE Head(parts) \o Concat(Tail(parts))

AsideTexts ==
    {Concat(parts) : parts \in UNION {[1..n -> Remarks] : n \in 0..MaxSentences}}

InitAsides ==
    /\ clock = 0
    /\ activeFile = [exists |-> FALSE, text |-> <<>>]
    /\ readme = InitReadme
    /\ stashFiles = {}
    /\ taskFiles = {}
    /\ memoryFile = [exists |-> FALSE, lines |-> <<>>]
    /\ last = Result("init", <<>>, TRUE, "")
    /\ pre = [active |-> activeFile, readme |-> readme, stash |-> stashFiles]
    /\ allocated = <<>>
    /\ strayNames = {}
    /\ alertIn = NoAlertInput
    /\ alertOut = <<>>
    /\ procs = <<>>
    /\ asideIn \in AsideTexts
    /\ asideOut = <<>>

NextAsides == detect_asides_run

SpecAsides == InitAsides /\ [][NextAsides]_vars

(***************************************************************************)
(* Properties.                                                             *)
(***************************************************************************)
\* the pointer before the last command
PrePointer == IF pre.active.exists THEN pre.active.text ELSE None

PointerEmpty == get_active_project = <<>>

StoreUnchanged ==
    /\ activeFile = pre.active
    /\ readme = pre.readme
    /\ stashFiles = pre.stash

HasStashEntry(id) == \E f \in stashFiles : f.id = id

\* the project identifiers that occur in the text of the pointer file
NamedInPointer ==
    {id \in ProjectIds :
        \E i \in 1..Len(activeFile.text) :
            i + Len(id) - 1 <= Len(activeFile.text)
            /\ SubSeq(activeFile.text, i, i + Len(id) - 1) = id}

\* C1: from a state with no active project, switch(P) followed directly by
\* stash() succeeds, leaves the pointer empty and leaves P's status stashed,
\* for every project P.
C1_SwitchThenStash ==
    [][ ( /\ last.op = "switch" /\ last.ret
          /\ last.arg \in ProjectIds
          /\ PrePointer = <<>>
          /\ last'.op = "stash" )
        => ( /\ last'.ret
             /\ get_active_project' = <<>>
             /\ StatusIn(readme', DirOf(last.arg)) = "stashed" ) ]_vars

C1_Witness ==
    /\ last.op = "stash" /\ last.ret
    /\ PrePointer \in ProjectIds
    /\ PointerEmpty
    /\ ProjectStatus(DirOf(PrePointer)) = "stashed"

\* C2 (as claimed): in every reachable state the pointer is empty or names an
\* existing project whose status is active.
C2_PointerTargetsActiveProject ==
    \/ PointerEmpty
    \/ /\ get_active_project \in ProjectIds
       /\ ProjectStatus(DirOf(get_active_project)) = "active"

\* C3: at most one project is the active one: the pointer file never names
\* two projects, also after switch(P2) while P1 was the active project.
C3_AtMostOneActive ==
    Cardinality({id \in NamedInPointer : ~readme[DirOf(id)].stashed}) <= 1

C3_Witness ==
    /\ last.op = "switch" /\ last.ret
    /\ PrePointer \in ProjectIds
    /\ last.arg \in ProjectIds
    /\ PrePointer # last.arg
    /\ NamedInPointer = {last.arg}
    /\ ~readme[DirOf(PrePointer)].stashed

\* C4 (as claimed): switch(id) on an existing project succeeds and afterwards
\* the pointer is id and the project's status is active.
C4_SwitchMakesActive ==
    (last.op = "switch" /\ last.arg \in ProjectIds)
        => ( /\ last.ret
             /\ get_active_project = last.arg
             /\ ProjectStatus(DirOf(last.arg)) = "active" )

\* C5 (as claimed): switch(id) with an id that names no existing project fails
\* with ProjectNotFound and leaves the pointer, every project's status and the
\* stash index unchanged.
C5_SwitchUnknownFails ==
    (last.op = "switch" /\ last.arg # <<>> /\ last.arg \notin ProjectIds)
        => ( /\ ~last.ret
             /\ ErrorKind(last.msg) = "ProjectNotFound"
             /\ StoreUnchanged )

\* C6: stash() with the pointer set to project P succeeds; afterwards P's
\* status is stashed, the pointer is empty, the stash index holds an entry for
\* P that links to P's folder, and no other project's README has changed.
C6_StashActiveProject ==
    (last.op = "stash" /\ PrePointer \in ProjectIds)
        => ( /\ last.ret
             /\ ProjectStatus(DirOf(PrePointer)) = "stashed"
             /\ PointerEmpty
             /\ \E f \in stashFiles :
                    /\ f.id = PrePointer
                    /\ f.name = PrePointer \o <<".md">>
                    /\ f.link = DirOf(PrePointer)
             /\ \A d \in ProjectDirs \ {DirOf(PrePointer)} : readme[d] = pre.readme[d] )

C6_Witness ==
    /\ last.op = "stash" /\ last.ret
    /\ PrePointer = P001
    /\ pre.stash = {}
    /\ HasStashEntry(P001)
    /\ ProjectStatus(DirOf(P001)) = "stashed"
    /\ ProjectStatus(DirOf(P002)) = "future"

\* C7: stash() when no project is active (pointer file absent, or emptied by
\* an earlier stash) fails with NoActiveProject and changes nothing.
C7_StashNothingActive ==
    (last.op = "stash" /\ PrePointer = <<>>)
        => ( /\ ~last.ret
             /\ ErrorKind(last.msg) = "NoActiveProject"
             /\ StoreUnchanged
             /\ PointerEmpty )

C7_Witness ==
    /\ last.op = "stash" /\ ~last.ret
    /\ pre.active.exists /\ pre.active.text = <<>>
    /\ \E d \in ProjectDirs : readme[d].stashed

\* C8 (as claimed): after switch(P); stash(), a second stash() is rejected
\* with the error NotActive and leaves P stashed and the pointer empty.
C8_RestashNotActive ==
    [][ ( /\ last.op = "stash" /\ last.ret
          /\ PrePointer \in ProjectIds
          /\ last'.op = "stash" )
        => ( /\ ~last'.ret
             /\ ErrorKind(last'.msg) = "NotActive"
             /\ StatusIn(readme', DirOf(PrePointer)) = "stashed"
             /\ get_active_project' = <<>> ) ]_vars

\* C8 (amended): after switch(P); stash(), a second stash() is rejected with
\* NoActiveProject, the error of a stash with nothing active, and leaves P
\* stashed and the pointer empty.
C8_RestashNoActiveProject ==
    [][ ( /\ last.op = "stash" /\ last.ret
          /\ PrePointer \in ProjectIds
          /\ last'.op = "stash" )
        => ( /\ ~last'.ret
             /\ ErrorKind(last'.msg) = "NoActiveProject"
             /\ StatusIn(readme', DirOf(PrePointer)) = "stashed"
             /\ get_active_project' = <<>> ) ]_vars

C8_Witness ==
    /\ last.op = "stash" /\ ~last.ret
    /\ last.msg = "No active project to stash"
    /\ PointerEmpty
    /\ \E id \in ProjectIds :
          HasStashEntry(id) /\ ProjectStatus(DirOf(id)) = "stashed"

\* C9 (as claimed): in every reachable state a project has an entry in the
\* stash index if and only if its status is stashed.
C9_StashIndexMatchesStatus ==
    \A id \in ProjectIds :
        HasStashEntry(id) <=> ProjectStatus(DirOf(id)) = "stashed"

\* the number a record's own id field carries
IdNumber(id) == StrToInt(Tail(id))

\* the numbers of the existing records of a prefix: task records by their id
\* field, project folders by the identifier their name starts with
ExistingNumbers(prefix) ==
    IF prefix = "K" THEN {IdNumber(t.id) : t \in taskFiles}
    ELSE {IdNumber(SubSeq(d, 1, 4)) : d \in Dirs}

\* C10: get_next_id(prefix) is the prefix followed by max+1 padded with zeros
\* to three digits, max being the largest number among the existing records
\* of the prefix (0 when there is none); calling it again without creating a
\* record returns the same value; and after a task is created with number N
\* the next identifier carries N+1.
C10_NextId ==
    /\ \A prefix \in Prefixes :
          LET next == get_next_id(prefix)
              digits == Tail(next)
              n == StrToInt(digits)
              existing == ExistingNumbers(prefix)
          IN  /\ Head(next) = prefix
              /\ \A i \in 1..Len(digits) : IsDigit(digits[i])
              /\ Len(digits) >= 3
              /\ (Len(digits) > 3 => digits[1] # "0")
              /\ \A m \in existing : m < n
              /\ IF existing = {} THEN n = 1 ELSE (n - 1) \in existing
    /\ (last.op = "next_id") => get_next_id(last.arg[1]) = last.id
    /\ (last.op = "defer" /\ last.ret) =>
          /\ IdNumber(get_next_id("K")) = IdNumber(last.id) + 1
          /\ \E t \in taskFiles : t.id = last.id

C10_Witness ==
    /\ last.op = "defer" /\ last.ret
    /\ last.id = <<"K", "1", "0", "0", "0">>
    /\ get_next_id("K") = <<"K", "1", "0", "0", "1">>
    /\ \E t \in taskFiles : t.id = <<"K", "0", "0", "9">>

\* the task ids handed out so far, deleted records included, strictly increase
IdsStrictlyIncrease(ids) ==
    \A i, j \in 1..Len(ids) : i < j => ids[i] < ids[j]

\* C11: task ids strictly increase and are never reused, even after records
\* are deleted: every newly allocated id is numerically greater than every id
\* allocated before it, the ids of deleted records included.
C11_IdsNeverReused == IdsStrictlyIncrease(allocated)

\* C12: task ids are unique across all projects: after any sequence of
\* create_task calls, one after the other, no two task records carry the same
\* id, whichever projects they were filed under.
C12_TaskIdsGloballyUnique ==
    \A t1, t2 \in taskFiles : t1.id = t2.id => t1 = t2

C12_Witness ==
    /\ last.op = "defer" /\ last.ret
    /\ \E t1, t2 \in taskFiles :
          /\ t1.title \in Titles /\ t2.title \in Titles
          /\ t1.project = P001 /\ t2.project = P002
          /\ t1.id # t2.id

\* what each stray name adds to the scan of a prefix: the number it is read
\* as, or nothing
StrayNumbers(prefix) ==
    IF prefix = "K"
    THEN (IF StrayK12abc \in strayNames THEN {12} ELSE {})
            \cup (IF StrayK0050 \in strayNames THEN {50} ELSE {})
    ELSE IF StrayP42x \in strayNames THEN {42} ELSE {}

\* the identifier that follows the numbers `found`
IsNextAfter(id, prefix, found) ==
    /\ Len(id) >= 4
    /\ Head(id) = prefix
    /\ \A i \in 2..Len(id) : IsDigit(id[i])
    /\ \A m \in found : m < IdNumber(id)
    /\ IF found = {} THEN IdNumber(id) = 1 ELSE (IdNumber(id) - 1) \in found

\* C13 as stated: existing names that are malformed (something that is not a
\* digit after the digits of the prefix, or a numeric part of the wrong width)
\* neither make get_next_id fail nor count toward the maximum: the result
\* follows the well-formed records alone.
C13_MalformedIgnored ==
    \A prefix \in Prefixes :
        IsNextAfter(get_next_id(prefix), prefix, ExistingNumbers(prefix))

\* C13, amended: malformed names never make get_next_id fail, but only the
\* names the glob does not match (no digit right after the letter, or for
\* tasks no .md ending) are ignored; a matched name counts with the digits that
\* follow the letter, whatever their width and whatever comes after them.
C13_MalformedCountByDigitRun ==
    \A prefix \in Prefixes :
        IsNextAfter(get_next_id(prefix), prefix,
                    ExistingNumbers(prefix) \cup StrayNumbers(prefix))

C13_Witness ==
    /\ last.op = "next_id" /\ last.arg = <<"K">>
    /\ strayNames = {StrayK12abc, StrayKabc, StrayK5txt}
    /\ \E t \in taskFiles : t.id = <<"K", "0", "0", "9">>
    /\ last.id = <<"K", "0", "1", "3">>

\* C14: get_next_id fails with UnknownPrefix for every prefix other than K and
\* P, and returns no identifier.
C14_UnknownPrefixFails ==
    (last.op = "next_id" /\ last.arg[1] \notin {"K", "P"})
        => ( /\ ~last.ret
             /\ last.id = <<>>
             /\ ErrorKind(last.msg) = "UnknownPrefix" )

\* the step ran create_task with no target of its own
CreatesWithoutTarget ==
    /\ last'.op \in {"add", "defer"}
    /\ last'.msg # "Usage"
    /\ last'.arg = <<>>

\* C15: create_task without an explicit project takes the project named in the
\* pointer file; when the file is absent or empty it returns a failure of kind
\* NoActiveProject without raising, and writes nothing: no task record, no
\* line in any README, no task id consumed (none handed out, and the names
\* get_next_id scans are the same).
C15_NoActiveProjectWritesNothing ==
    [][ /\ (CreatesWithoutTarget /\ (~activeFile.exists \/ activeFile.text = <<>>))
            => ( /\ ~last'.ret
                 /\ last'.id = <<>>
                 /\ ErrorKind(last'.msg) = "NoActiveProject"
                 /\ taskFiles' = taskFiles
                 /\ readme' = readme
                 /\ allocated' = allocated
                 /\ memoryFile' = memoryFile
                 /\ TreeNames' = TreeNames )
        /\ (CreatesWithoutTarget /\ last'.ret)
            => \E t \in taskFiles' \ taskFiles :
                  t.id = last'.id /\ t.project = activeFile.text
      ]_vars

C15_Witness ==
    /\ last.op = "add" /\ ~last.ret
    /\ last.msg = "No active project"
    /\ activeFile.exists /\ activeFile.text = <<>>
    /\ HasStashEntry(P001)
    /\ taskFiles = {}

\* the reference lines for a task id in the README of a folder
ReferenceLines(dir, id) ==
    IF dir \in DOMAIN readme
    THEN {i \in 1..Len(readme[dir].tasks) : readme[dir].tasks[i].id = id}
    ELSE {}

\* C16: after a successful create_task the task has exactly one record file,
\* under the folder of its target project, and the README of that project has
\* exactly one reference line for the task id: never none, never two.
C16_OneRecordOneReference ==
    (last.op \in {"add", "defer"} /\ last.ret)
        => LET target == IF last.arg = <<>> THEN PrePointer ELSE last.arg
               files == {t \in taskFiles : t.id = last.id}
           IN  /\ Cardinality(files) = 1
               /\ \A t \in files :
                     /\ t.project = target
                     /\ IsPrefixOf(target, t.dir)
                     /\ Cardinality(ReferenceLines(t.dir, last.id)) = 1

\* C17: a commit that fails after the task record has been written is not
\* fatal: create_task reports a warning, does not raise, does not undo the
\* record and still returns the task id.
C17_CommitFailureNonFatal ==
    [][ (last'.op \in {"add", "defer"} /\ taskFiles' # taskFiles)
            => ( /\ last'.msg # "CalledProcessError"
                 /\ last'.ret
                 /\ \E t \in taskFiles' \ taskFiles : t.id = last'.id )
      ]_vars

\* the records that carry the id returned by the last command
CreatedRecords == {t \in taskFiles : t.id = last.id}

\* C18 as stated: a task created without an explicit status is written with
\* status inbox.
C18_DefaultStatusInbox ==
    (last.op = "add" /\ last.ret)
        => (CreatedRecords # {} /\ \A t \in CreatedRecords : t.status = "inbox")

\* C18, amended: a task created without an explicit status (cmd_add_task
\* passes none) is written with status next, the default of create_task.
C18_DefaultStatusNext ==
    (last.op = "add" /\ last.ret)
        => (CreatedRecords # {} /\ \A t \in CreatedRecords : t.status = "next")

C18_Witness ==
    /\ last.op = "add" /\ last.ret
    /\ last.id = <<"K", "0", "0", "1">>
    /\ \E t \in taskFiles : t.id = last.id /\ t.project = P001 /\ t.status = "next"

\* the engine has run over alertIn
EngineRan == last.op = "health"

\* the task records proper of the input: those with their id: and title: lines
AlertTasks ==
    {alertIn.tasks[i] : i \in {j \in 1..Len(alertIn.tasks) : alertIn.tasks[j].hasFields}}

\* the alerts of a kind raised for a task
AlertsFor(t, kind) ==
    {i \in 1..Len(alertOut) : alertOut[i].id = t.id /\ alertOut[i].kind = kind}

\* floor((now - lastModifiedAt) / 1 day)
AgeDays(t) == (alertIn.now - t.mtime) \div TicksPerDay

\* C19 as stated: ages are compared in whole days with a strict >: a waiting
\* task whose age is 3 whole days (from exactly 3 days up to, not including,
\* 4 days) raises no alert, and one whose age is 4 whole days raises exactly
\* one waiting-stale alert.
C19_WholeDayComparison ==
    EngineRan =>
        \A t \in AlertTasks :
            t.status = "waiting" =>
                /\ (AgeDays(t) = 3 => AlertsFor(t, "waiting-stale") = {})
                /\ (AgeDays(t) = 4 => Cardinality(AlertsFor(t, "waiting-stale")) = 1)

\* C19, amended: the comparison is a strict > on the elapsed time itself, not
\* on whole days: a waiting task raises exactly one waiting-stale alert when
\* more than 3 days have passed since its modification and none otherwise, so
\* exactly 3 days raises none, 3 days and a fraction raises one that reports
\* 3 days, and 4 whole days raises one; the reported age is the floor.
C19_ElapsedTimeComparison ==
    EngineRan =>
        \A t \in AlertTasks :
            t.status = "waiting" =>
                /\ Cardinality(AlertsFor(t, "waiting-stale")) =
                      (IF alertIn.now - t.mtime > 3 * TicksPerDay THEN 1 ELSE 0)
                /\ \A i \in AlertsFor(t, "waiting-stale") : alertOut[i].days = AgeDays(t)
                /\ (AgeDays(t) = 4 => Cardinality(AlertsFor(t, "waiting-stale")) = 1)

C19_Witness ==
    /\ EngineRan
    /\ \E t \in AlertTasks :
          /\ t.status = "waiting"
          /\ AgeDays(t) = 3
          /\ alertIn.now - t.mtime > 3 * TicksPerDay
          /\ \E i \in AlertsFor(t, "waiting-stale") : alertOut[i].days = 3

\* C20: a next-stale alert is raised for a task exactly when its status is
\* next and its age in whole days exceeds 7; a task of any other status never
\* raises one; and no task raises more than one aging alert.
C20_NextStaleIffNextAndOld ==
    EngineRan =>
        \A t \in AlertTasks :
            /\ (AlertsFor(t, "next-stale") # {}) <=> (t.status = "next" /\ AgeDays(t) > 7)
            /\ Cardinality(AlertsFor(t, "next-stale") \cup AlertsFor(t, "waiting-stale")) <= 1

\* the stash-stale alerts raised for a project
StashAlertsFor(id) ==
    {i \in 1..Len(alertOut) : alertOut[i].kind = "stash-stale" /\ alertOut[i].id = id}

\* C21: a stash-stale alert is raised exactly for the projects that are
\* stashed now and whose stash entry is more than 7 whole days old; a project
\* switched back to since it was stashed raises none.
C21_StashStaleOnlyStashed ==
    EngineRan =>
        /\ \A f \in stashFiles :
              (StashAlertsFor(f.id) # {})
                  <=> ( /\ StatusIn(readme, f.link) = "stashed"
                        /\ (clock - f.mtime) \div TicksPerDay > 7 )
        /\ \A i \in 1..Len(alertOut) :
              alertOut[i].kind = "stash-stale" => HasStashEntry(alertOut[i].id)

\* the inbox-overflow alerts of the run
InboxAlerts == {i \in 1..Len(alertOut) : alertOut[i].kind = "inbox-overflow"}

\* the number of task records whose status is inbox
InboxTaskCount ==
    Cardinality({i \in 1..Len(alertIn.tasks) : alertIn.tasks[i].status = "inbox"})

\* C22: for every record set the engine raises no inbox-overflow alert when 10
\* or fewer tasks have status inbox, and exactly one, carrying the exact
\* number of them, when 11 or more have.
C22_InboxOverflowThreshold ==
    EngineRan =>
        IF InboxTaskCount <= 10
        THEN InboxAlerts = {}
        ELSE /\ Cardinality(InboxAlerts) = 1
             /\ \A i \in InboxAlerts : alertOut[i].count = InboxTaskCount

\* the place of a kind of alert in the fixed order of the rules
RuleRank(kind) ==
    CASE kind \in {"waiting-stale", "next-stale"} -> 1
      [] kind = "stash-stale" -> 2
      [] kind = "inbox-overflow" -> 3

\* C23: the alerts come in the fixed order of the rules: every aging-task
\* alert (waiting-stale, next-stale) before every stash-stale alert, and those
\* before the inbox-overflow alert, for every record set.
C23_AlertsInRuleOrder ==
    EngineRan =>
        \A i, j \in 1..Len(alertOut) :
            i < j => RuleRank(alertOut[i].kind) <= RuleRank(alertOut[j].kind)

C23_Witness ==
    /\ EngineRan
    /\ Len(alertOut) = 3
    /\ alertOut[1].kind = "waiting-stale"
    /\ alertOut[2].kind = "stash-stale"
    /\ alertOut[3].kind = "inbox-overflow"

\* the step ran one of the read operations
ReadStep == last'.op \in {"get_active", "next_id", "health"}

\* C24: get_active_project, get_next_id and the alert engine are pure reads:
\* each leaves the pointer file, every README, every task record and the
\* stash folder as they were (so the commands that follow find the store they
\* would have found without the reads), and returns what the store holds.
C24_ReadsArePure ==
    [][ ReadStep =>
          /\ activeFile' = activeFile
          /\ readme' = readme
          /\ taskFiles' = taskFiles
          /\ stashFiles' = stashFiles
          /\ memoryFile' = memoryFile
          /\ strayNames' = strayNames
          /\ clock' = clock
          /\ (last'.op = "get_active" =>
                 last'.id = (IF activeFile.exists THEN activeFile.text ELSE <<>>))
      ]_vars

C24_Witness ==
    /\ last.op = "health"
    /\ alertOut # <<>>
    /\ activeFile.exists /\ activeFile.text = P002
    /\ HasStashEntry(P001)
    /\ taskFiles # {}

\* the step ran create_task
CreateStep == last'.op \in {"add", "defer"} /\ last'.msg # "Usage"

\* C29: create_task never changes the project state store: whether it
\* succeeds or fails, with a target of its own or the one of the pointer, the
\* pointer file, the status of every project and the stash folder are the
\* same before and after; a task filed under a stashed project named as the
\* target does not re-activate it.
C29_CreateTaskKeepsStateStore ==
    [][ CreateStep =>
          /\ activeFile' = activeFile
          /\ stashFiles' = stashFiles
          /\ DOMAIN readme' = DOMAIN readme
          /\ \A d \in DOMAIN readme :
                /\ readme'[d].stashed = readme[d].stashed
                /\ readme'[d].status = readme[d].status
      ]_vars

C29_Witness ==
    /\ last.op = "defer" /\ last.ret /\ last.arg = P001
    /\ \E t \in taskFiles : t.id = last.id /\ t.dir = DirOf(P001)
    /\ readme[DirOf(P001)].stashed
    /\ HasStashEntry(P001)
    /\ activeFile.exists /\ activeFile.text = <<>>

\* C30: update_memory adds an entry to the log of the day: after any number
\* of calls (by add-task, defer and stash commands) the file still has its
\* header and holds every entry, in the order they were added.
C30_MemoryLogAppends ==
    [][ (last'.op \in {"add", "defer", "stash"} /\ last'.ret)
            => LET header == <<"# Memory: today", "## Activities">>
                   old == IF memoryFile.exists THEN memoryFile.lines ELSE header
                   new == memoryFile'.lines
               IN  /\ memoryFile'.exists
                   /\ Len(new) = Len(old) + 1
                   /\ SubSeq(new, 1, Len(old)) = old
                   /\ SubSeq(new, 1, 2) = header
      ]_vars

\* two invocations that have both finished and had scanned the same tree
ScannedTogether(p, q) ==
    /\ p # q
    /\ procs[p].pc = "done" /\ procs[q].pc = "done"
    /\ procs[p].seen = procs[q].seen

\* C28: concurrent writers race on the scan-then-write of the allocator: when
\* two create_task invocations both scan before either writes its record,
\* both are given the same task id, and (filed under different projects) two
\* records with one id are in the store.
C28_ScanThenWriteRace ==
    \A p, q \in DOMAIN procs :
        ScannedTogether(p, q) =>
            /\ procs[p].task_id = procs[q].task_id
            /\ procs[p].project # procs[q].project =>
                  \E t1, t2 \in taskFiles :
                      /\ t1 # t2
                      /\ t1.id = procs[p].task_id /\ t2.id = procs[p].task_id
                      /\ t1.project = procs[p].project
                      /\ t2.project = procs[q].project

C28_Witness ==
    /\ \A p \in DOMAIN procs : procs[p].pc = "done"
    /\ \E t1, t2 \in taskFiles :
          /\ t1.id = <<"K", "0", "1", "0">> /\ t2.id = <<"K", "0", "1", "0">>
          /\ t1.project = P001 /\ t2.project = P002
    /\ \E t \in taskFiles : t.id = <<"K", "0", "0", "9">>

\* the sentences of the text: its pieces between closing punctuation, without
\* the white space around them, the empty ones left out
NonEmptySentences(text) ==
    LET pieces == re_split(text)
        stripped == [k \in 1..Len(pieces) |-> strip(pieces[k])]
        NonEmpty(s) == s # <<>>
    IN  SelectSeq(stripped, NonEmpty)

MatchesIgnore(s) == IgnoreAlso(s) \/ IgnoreSpeaking(s)

MatchesTrigger(s) == \E k \in 1..Len(TRIGGER_PHRASES) : SearchPhrase(TRIGGER_PHRASES[k], s)

AsideSentences == [k \in 1..Len(asideOut) |-> asideOut[k][1]]

Detected == last.op = "detect_asides"

IgnoreExample ==
    <<"A", "l", "s", "o", ",", " ", "b", "u", "t", " ", "w", "e", " ", "a",
    "l", "r", "e", "a", "d", "y", " ", "c", "o", "v", "e", "r", "e", "d",
    " ", "t", "h", "a", "t", ".">>

\* C25: ignore precedence is absolute: no aside is made of a sentence that
\* matches an ignore pattern, whether or not it matches trigger phrases, and
\* "Also, but we already covered that." gives no aside.
C25_IgnorePrecedence ==
    Detected =>
        /\ \A k \in 1..Len(asideOut) : ~MatchesIgnore(asideOut[k][1])
        /\ LET sentences == NonEmptySentences(asideIn)
           IN  \A n \in 1..Len(sentences) :
                   MatchesIgnore(sentences[n]) =>
                       \A k \in 1..Len(asideOut) : asideOut[k][1] # sentences[n]
        /\ asideIn = IgnoreExample => asideOut = <<>>

\* an ignored sentence that also holds a trigger, then a sentence that triggers
C25_Witness ==
    /\ Detected
    /\ asideIn = IgnoreExample \o
                 <<" ", "O", "h", ",", " ", "P", "1", "2", " ", "i", "s",
                 " ", "l", "a", "t", "e", "!">>
    /\ MatchesTrigger(NonEmptySentences(asideIn)[1])
    /\ MatchesIgnore(NonEmptySentences(asideIn)[1])
    /\ Len(asideOut) = 1
    /\ asideOut[1][1] = <<"O", "h", ",", " ", "P", "1", "2", " ", "i", "s",
                       " ", "l", "a", "t", "e">>

\* C26: detect returns at most one aside per sentence, in the order of the
\* text: the asides' sentences are exactly the non-empty sentences that match
\* no ignore pattern and at least one trigger, in sentence order, however
\* many triggers one sentence matches.
C26_OneAsidePerSentenceInOrder ==
    Detected =>
        LET Kept(s) == ~MatchesIgnore(s) /\ MatchesTrigger(s)
        IN  AsideSentences = SelectSeq(NonEmptySentences(asideIn), Kept)

\* three sentences of which two trigger, the last one with two triggers
C26_Witness ==
    /\ Detected
    /\ asideIn = <<" ", "O", "h", ",", " ", "P", "1", "2", " ", "i", "s",
                 " ", "l", "a", "t", "e", "!">> \o
                 <<" ", "T", "h", "e", " ", "b", "u", "t", "t", "o", "n",
                 " ", "i", "s", " ", "r", "e", "d", ".">> \o
                 <<" ", "A", "l", "s", "o", " ", "o", "h", " ", "w", "e",
                 " ", "m", "u", "s", "t", " ", "b", "e", "g", "i", "n",
                 ".">>
    /\ Len(NonEmptySentences(asideIn)) = 3
    /\ Cardinality({k \in 1..Len(TRIGGER_PHRASES) :
                       SearchPhrase(TRIGGER_PHRASES[k], NonEmptySentences(asideIn)[3])}) = 2
    /\ AsideSentences = << NonEmptySentences(asideIn)[1], NonEmptySentences(asideIn)[3] >>

\* the words of a sentence: its longest runs of word characters, as <<first, last>>
WordRuns(s) ==
    {r \in (1..Len(s)) \X (1..Len(s)) :
        /\ r[1] <= r[2]
        /\ \A k \in r[1]..r[2] : IsWordChar(s[k])
        /\ r[1] = 1 \/ ~IsWordChar(s[r[1] - 1])
        /\ r[2] = Len(s) \/ ~IsWordChar(s[r[2] + 1])}

\* a word in lower case
WordAt(s, r) == [k \in 1..(r[2] - r[1] + 1) |-> Fold(s[r[1] + k - 1])]

\* the sentence holds a word made of P and digits
MentionsProjectId(s) ==
    \E r \in WordRuns(s) :
        /\ s[r[1]] = "P"
        /\ r[2] > r[1]
        /\ \A k \in (r[1] + 1)..r[2] : IsDigit(s[k])

\* the sentence holds one of the words must, start, begin, or need/have and
\* to with one space between
ContainsCue(s) ==
    \E r \in WordRuns(s) :
        \/ WordAt(s, r) \in {<<"m", "u", "s", "t">>,
                             <<"s", "t", "a", "r", "t">>,
                             <<"b", "e", "g", "i", "n">>}
        \/ /\ WordAt(s, r) \in {<<"n", "e", "e", "d">>, <<"h", "a", "v", "e">>}
           /\ \E q \in WordRuns(s) :
                 /\ q[1] = r[2] + 2
                 /\ s[r[2] + 1] = " "
                 /\ WordAt(s, q) = <<"t", "o">>

\* C27: an aside is typed defer (project) exactly when its sentence mentions a
\* project identifier (P and digits) or an immediate-action cue, and later
\* (standalone) otherwise, whatever the other sentences are.
C27_TypeFromSentence ==
    Detected =>
        \A k \in 1..Len(asideOut) :
            /\ asideOut[k][2] \in {DeferProject, LaterStandalone}
            /\ asideOut[k][2] = DeferProject
                   <=> (MentionsProjectId(asideOut[k][1]) \/ ContainsCue(asideOut[k][1]))

\* a sentence with a project id, one with neither and one with a cue
C27_Witness ==
    /\ Detected
    /\ asideIn = <<" ", "O", "h", ",", " ", "P", "1", "2", " ", "i", "s",
                 " ", "l", "a", "t", "e", "!">> \o
                 <<" ", "B", "y", " ", "t", "h", "e", " ", "w", "a", "y",
                 " ", "p", "1", "2", " ", "i", "s", " ", "r", "e", "s",
                 "t", "a", "r", "t", "i", "n", "g", ".">> \o
                 <<" ", "A", "l", "s", "o", " ", "o", "h", " ", "w", "e",
                 " ", "m", "u", "s", "t", " ", "b", "e", "g", "i", "n",
                 ".">>
    /\ Len(asideOut) = 3
    /\ asideOut[1][2] = DeferProject
    /\ MentionsProjectId(asideOut[1][1]) /\ ~ContainsCue(asideOut[1][1])
    /\ asideOut[2][2] = LaterStandalone
    /\ asideOut[3][2] = DeferProject
    /\ ~MentionsProjectId(asideOut[3][1]) /\ ContainsCue(asideOut[3][1])

====
